---- MODULE Spec2Model ----
(***************************************************************************)
(* Model of update.js: the exported arrow function builds an object        *)
(* literal `config` (one property `run`, an array of three step objects)   *)
(* and returns it.  JavaScript objects and arrays are reference values, so *)
(* the model keeps a heap of cells; the object literal is evaluated into   *)
(* fresh cells on every invocation.  Callers hold the returned reference   *)
(* and may mutate what it points to; one caller, the host, executes the    *)
(* steps of the list it received.                                          *)
(***************************************************************************)
EXTENDS Integers, Sequences, FiniteSets, TLC

\* ---------------------------------------------------------------- bounds
NumCallers == 2
MaxCalls == 2
MaxMutations == 2

Callers == 1..NumCallers
Host == 1
Mutators == Callers \ {Host}

\* Argument lists a caller may pass (the function declares no parameter).
ArgLists == { <<>>, <<"3.0.0">> }

\* Command lines a mutating caller may write into a step it received.
ForeignMessages == { "git status" }

\* ------------------------------------------------- literal values (trees)
Str(s) == [t |-> "str", s |-> s]
Obj(props) == [t |-> "obj", props |-> props]
Arr(elems) == [t |-> "arr", elems |-> elems]

\* ------------------------------------------------------------ heap values
StrV(s) == [t |-> "str", s |-> s, a |-> 0]
RefV(a) == [t |-> "ref", s |-> "", a |-> a]
Undefined == [t |-> "undef", s |-> "", a |-> 0]

ObjectCell(props) == [kind |-> "object", props |-> props, elems |-> <<>>]
ArrayCell(elems) == [kind |-> "array", props |-> <<>>, elems |-> elems]

\* The three step literals of the run array (update.js lines 7-13, 14-21
\* and 22-29).
Step1 ==
    Obj([method |-> Str("shell.run"),
         params |-> Obj([message |-> Str("git pull")])])

Step2 ==
    Obj([method |-> Str("shell.run"),
         params |-> Obj([message |-> Str("git pull --tags"),
                         path |-> Str("facefusion")])])

Step3 ==
    Obj([method |-> Str("shell.run"),
         params |-> Obj([message |-> Str("git checkout 2.5.3"),
                         path |-> Str("facefusion")])])

\* Bug variant: the first step also runs inside facefusion.
ModuleExportsPathOnFirst(args) ==
    Obj([run |-> Arr(<<
      Obj([method |-> Str("shell.run"),
           params |-> Obj([message |-> Str("git pull"),
                           path |-> Str("facefusion")])]),
      Step2, Step3 >>)])

\* Bug variant: the function returns the bare array instead of { run: [...] }.
ModuleExportsBareList(args) == Arr(<<Step1, Step2, Step3>>)

\* Bug variant: one step names another host method.
ModuleExportsOtherMethod(args) ==
    Obj([run |-> Arr(<<
      Step1, Step2,
      Obj([method |-> Str("fs.rm"), params |-> Step3.props.params]) >>)])

\* Bug variant: the checkout is listed before the tag pull.
ModuleExportsSwapped(args) == Obj([run |-> Arr(<<Step1, Step3, Step2>>)])

\* Bug variant: the pinned version is taken from the first argument when one
\* is passed.
ModuleExportsFromArgs(args) ==
    IF Len(args) = 0 THEN Obj([run |-> Arr(<<Step1, Step2, Step3>>)])
    ELSE Obj([run |-> Arr(<<
           Step1, Step2,
           Obj([method |-> Str("shell.run"),
                params |-> Obj([message |-> Str(args[1]),
                                path |-> Str("facefusion")])]) >>)])

\* The object literal of update.js lines 3-31, as the expression tree that
\* is evaluated on every call.  `args` is whatever the caller passed; the
\* arrow function has an empty parameter list and never reads `arguments`.
ModuleExports(args) ==
    LET config == Obj([run |-> Arr(<<Step1, Step2, Step3>>)])
    IN  config

\* Evaluation of a literal expression: every object and array literal
\* creates a new cell; strings are primitive values.  Returns the grown
\* heap and the value of the expression.  (Intermediate results are bound
\* as elements of singleton sets so that each is computed once.)
RECURSIVE EvalTree(_, _)
RECURSIVE EvalProps(_, _, _, _)
RECURSIVE EvalElems(_, _, _, _)

TheOne(S) == CHOOSE x \in S : TRUE

EvalProps(h, props, keys, acc) ==
    IF keys = {} THEN [heap |-> h, props |-> acc]
    ELSE LET k == CHOOSE x \in keys : TRUE
         IN  TheOne({ EvalProps(r.heap, props, keys \ {k}, acc @@ (k :> r.val)) :
                      r \in {EvalTree(h, props[k])} })

EvalElems(h, elems, i, acc) ==
    IF i > Len(elems) THEN [heap |-> h, elems |-> acc]
    ELSE TheOne({ EvalElems(r.heap, elems, i + 1, Append(acc, r.val)) :
                  r \in {EvalTree(h, elems[i])} })

EvalTree(h, tree) ==
    CASE tree.t = "str" -> [heap |-> h, val |-> StrV(tree.s)]
      [] tree.t = "obj" ->
           TheOne({ [heap |-> Append(r.heap, ObjectCell(r.props)),
                     val |-> RefV(Len(r.heap) + 1)] :
                    r \in {EvalProps(h, tree.props, DOMAIN tree.props, <<>>)} })
      [] tree.t = "arr" ->
           TheOne({ [heap |-> Append(r.heap, ArrayCell(r.elems)),
                     val |-> RefV(Len(r.heap) + 1)] :
                    r \in {EvalElems(h, tree.elems, 1, <<>>)} })

\* Bug variant: the literal is evaluated once (hoisted out of the function)
\* and every later call hands out the same object.
EvaluateHoisted(h, tree) ==
    IF Len(h) = 0 THEN EvalTree(h, tree)
    ELSE [heap |-> h, val |-> EvalTree(<<>>, tree).val]

\* Bug variant: a new config object and run array per call, but the step
\* objects are created once and reused by every call.
EvaluateSharedSteps(h, tree) ==
    IF Len(h) = 0 THEN EvalTree(h, tree)
    ELSE LET first == EvalTree(<<>>, tree)
             run == first.heap[first.val.a].props.run
             h1 == Append(h, ArrayCell(first.heap[run.a].elems))
         IN  [heap |-> Append(h1, ObjectCell([run |-> RefV(Len(h1))])),
              val |-> RefV(Len(h1) + 1)]

\* `const config = { ... }` inside the function body: the literal is
\* evaluated anew in the heap as it is at the time of the call.
Evaluate(h, tree) == EvalTree(h, tree)

\* The structure a value denotes in heap h (what a deep comparison sees).
RECURSIVE Deref(_, _)
Deref(h, v) ==
    CASE v.t = "str" -> Str(v.s)
      [] v.t = "undef" -> [t |-> "undef"]
      [] v.t = "ref" ->
           LET cell == h[v.a]
           IN  IF cell.kind = "object"
               THEN Obj([k \in DOMAIN cell.props |-> Deref(h, cell.props[k])])
               ELSE Arr([i \in 1..Len(cell.elems) |-> Deref(h, cell.elems[i])])

\* The cells reachable from a value in heap h.
RECURSIVE Cells(_, _)
Cells(h, v) ==
    IF v.t # "ref" THEN {}
    ELSE LET cell == h[v.a]
         IN  {v.a}
             \cup UNION { Cells(h, cell.props[k]) : k \in DOMAIN cell.props }
             \cup UNION { Cells(h, cell.elems[i]) : i \in 1..Len(cell.elems) }

\* ------------------------------------------------------------------ state
VARIABLES
    heap,       \* the cells allocated so far, indexed by address
    pc,         \* per caller: "idle", "construct" (line 3) or "return" (line 33)
    args,       \* per caller: the arguments of the invocation in progress
    config,     \* per caller: the local `const config` of its invocation
    ret,        \* per caller: the value its last invocation returned
    calls,      \* invocations made so far, by all callers
    muts,       \* per caller: mutations it made to values it received
    returned,   \* every (arguments, returned structure) pair observed so far
    hostIdx,    \* the host's position in the list it is executing
    log         \* the commands the host has run, in order

vars == <<heap, pc, args, config, ret, calls, muts, returned, hostIdx, log>>

\* Working directory the host uses for a step without `path`.
HostDefaultRoot == "<root>"

\* The run array cell behind a returned config value, or <<>> when the
\* value has no `run` array.
RunElems(h, v) ==
    IF v.t = "ref" /\ h[v.a].kind = "object" /\ "run" \in DOMAIN h[v.a].props
       /\ h[v.a].props.run.t = "ref" /\ h[h[v.a].props.run.a].kind = "array"
    THEN h[h[v.a].props.run.a].elems
    ELSE <<>>

\* Mutations made so far by the callers in S.
RECURSIVE Mutations(_)
Mutations(S) ==
    IF S = {} THEN 0
    ELSE LET c == CHOOSE x \in S : TRUE IN muts[c] + Mutations(S \ {c})

Init ==
    /\ heap = <<>>
    /\ pc = [c \in Callers |-> "idle"]
    /\ args = [c \in Callers |-> <<>>]
    /\ config = [c \in Callers |-> Undefined]
    /\ ret = [c \in Callers |-> Undefined]
    /\ calls = 0
    /\ muts = [c \in Callers |-> 0]
    /\ returned = {}
    /\ hostIdx = 0
    /\ log = <<>>

\* A caller invokes the exported function with argument list a.
Call(c, a) ==
    /\ pc[c] = "idle"
    /\ calls < MaxCalls
    /\ calls' = calls + 1
    /\ pc' = [pc EXCEPT ![c] = "construct"]
    /\ args' = [args EXCEPT ![c] = a]
    /\ UNCHANGED <<heap, config, ret, muts, returned, hostIdx, log>>

\* Lines 3-31: const config = { run: [ ... ] }.
Construct(c) ==
    /\ pc[c] = "construct"
    /\ \E r \in {Evaluate(heap, ModuleExports(args[c]))} :
           /\ heap' = r.heap
           /\ config' = [config EXCEPT ![c] = r.val]
    /\ pc' = [pc EXCEPT ![c] = "return"]
    /\ UNCHANGED <<args, ret, calls, muts, returned, hostIdx, log>>

\* Bug variant: the invocation ends by throwing instead of returning.
ReturnThrows(c) ==
    /\ pc[c] = "return"
    /\ pc' = [pc EXCEPT ![c] = "threw"]
    /\ UNCHANGED <<heap, args, config, ret, calls, muts, returned, hostIdx, log>>

\* Line 33: return config.  The caller now holds the value; the host starts
\* executing the list it received from its beginning.
Return(c) ==
    /\ pc[c] = "return"
    /\ ret' = [ret EXCEPT ![c] = config[c]]
    /\ config' = [config EXCEPT ![c] = Undefined]
    /\ args' = [args EXCEPT ![c] = <<>>]
    /\ pc' = [pc EXCEPT ![c] = "idle"]
    /\ returned' = returned \cup
         { [args |-> args[c],
            value |-> Deref(heap, config[c]),
            afterMutation |-> \E d \in Callers : muts[d] > 0] }
    /\ IF c = Host
       THEN hostIdx' = 0 /\ log' = <<>>
       ELSE UNCHANGED <<hostIdx, log>>
    /\ UNCHANGED <<heap, calls, muts>>

\* A caller removes step i from the list it received (run.splice(i, 1)).
RemoveStep(c, i) ==
    /\ c \in Mutators
    /\ pc[c] = "idle"
    /\ Mutations(Callers) < MaxMutations
    /\ i \in 1..Len(RunElems(heap, ret[c]))
    /\ LET run == heap[ret[c].a].props.run
           old == heap[run.a].elems
       IN  heap' = [heap EXCEPT ![run.a].elems =
                      SubSeq(old, 1, i - 1) \o SubSeq(old, i + 1, Len(old))]
    /\ muts' = [muts EXCEPT ![c] = @ + 1]
    /\ UNCHANGED <<pc, args, config, ret, calls, returned, hostIdx, log>>

\* A caller rewrites the command line of step i of the list it received
\* (run[i].params.message = s).
RewriteMessage(c, i, s) ==
    /\ c \in Mutators
    /\ pc[c] = "idle"
    /\ Mutations(Callers) < MaxMutations
    /\ i \in 1..Len(RunElems(heap, ret[c]))
    /\ LET step == RunElems(heap, ret[c])[i]
           params == heap[step.a].props.params
       IN  heap' = [heap EXCEPT ![params.a].props =
                      [k \in DOMAIN @ |-> IF k = "message" THEN StrV(s) ELSE @[k]]]
    /\ muts' = [muts EXCEPT ![c] = @ + 1]
    /\ UNCHANGED <<pc, args, config, ret, calls, returned, hostIdx, log>>

\* The host runs the next step of the list it received: params.message as a
\* shell command, in params.path when present and in its default root
\* otherwise.
HostStep ==
    /\ pc[Host] = "idle"
    /\ hostIdx < Len(RunElems(heap, ret[Host]))
    /\ LET step == heap[RunElems(heap, ret[Host])[hostIdx + 1].a]
           p == heap[step.props.params.a].props
       IN  /\ step.props.method = StrV("shell.run")
           /\ log' = Append(log,
                [message |-> p.message.s,
                 cwd |-> IF "path" \in DOMAIN p THEN p.path.s ELSE HostDefaultRoot])
    /\ hostIdx' = hostIdx + 1
    /\ UNCHANGED <<heap, pc, args, config, ret, calls, muts, returned>>

Next ==
    \/ \E c \in Callers, a \in ArgLists : Call(c, a)
    \/ \E c \in Callers : Construct(c)
    \/ \E c \in Callers : Return(c)
    \/ \E c \in Callers, i \in 1..3 : RemoveStep(c, i)
    \/ \E c \in Callers, i \in 1..3, s \in ForeignMessages : RewriteMessage(c, i, s)
    \/ HostStep

Spec == Init /\ [][Next]_vars

\* The function body is synchronous straight-line code: once entered, each
\* statement is eventually executed.
FairSpec ==
    Spec /\ \A c \in Callers : WF_vars(Construct(c)) /\ WF_vars(Return(c))

\* ----------------------------------------------------------- observations
\* The step sequence carried by a returned structure (<<>> if it has none).
StepsOf(value) ==
    IF value.t = "obj" /\ "run" \in DOMAIN value.props /\ value.props.run.t = "arr"
    THEN value.props.run.elems
    ELSE <<>>

ParamsOf(step) == step.props.params.props

IsStep(step) ==
    /\ step.t = "obj"
    /\ DOMAIN step.props = {"method", "params"}
    /\ step.props.method.t = "str"
    /\ step.props.params.t = "obj"

ExpectedOrder(steps) ==
    /\ Len(steps) >= 3
    /\ \A i \in 1..Len(steps) : IsStep(steps[i])
    /\ ParamsOf(steps[1]) = [message |-> Str("git pull")]
    /\ ParamsOf(steps[2]) = [message |-> Str("git pull --tags"), path |-> Str("facefusion")]
    /\ ParamsOf(steps[3]) = [message |-> Str("git checkout 2.5.3"), path |-> Str("facefusion")]
    /\ \A i \in 1..Len(steps) : DOMAIN ParamsOf(steps[i]) \subseteq {"message", "path"}

\* C1: every invocation returns a step sequence whose step 0 is "git pull"
\* without path, step 1 is "git pull --tags" in facefusion, step 2 is
\* "git checkout 2.5.3" in facefusion, and no step has a params key other
\* than message and path.
C1_OrderingInvariant ==
    \A r \in returned : ExpectedOrder(StepsOf(r.value))

C1_Witness ==
    \E r \in returned : Len(StepsOf(r.value)) = 3

\* C2 as stated: the value the producer returns is itself the ordered
\* sequence of step descriptors, not a field of another record.
C2_ReturnsBareStepList ==
    \A r \in returned : r.value.t = "arr"

\* C2 amended: the value the producer returns is a record with the single
\* field `run`, and the ordered sequence of step descriptors is the value of
\* that field.
C2_ReturnsRunRecord ==
    \A r \in returned :
        /\ r.value.t = "obj"
        /\ DOMAIN r.value.props = {"run"}
        /\ r.value.props.run.t = "arr"
        /\ \A i \in 1..Len(r.value.props.run.elems) : IsStep(r.value.props.run.elems[i])

C2_Witness ==
    \E c \in Callers :
        /\ ret[c].t = "ref"
        /\ heap[ret[c].a].kind = "object"
        /\ returned # {}

\* C3: every returned step sequence has exactly 3 steps, every step's method
\* is the shell-execution identifier "shell.run", and every step's
\* params.message is a non-empty string.
C3_ShapeInvariant ==
    \A r \in returned :
        LET steps == StepsOf(r.value)
        IN  /\ Len(steps) = 3
            /\ \A i \in 1..Len(steps) :
                  /\ IsStep(steps[i])
                  /\ steps[i].props.method = Str("shell.run")
                  /\ "message" \in DOMAIN ParamsOf(steps[i])
                  /\ ParamsOf(steps[i]).message.t = "str"
                  /\ ParamsOf(steps[i]).message.s # ""

C3_Witness ==
    \E r \in returned :
        \E i \in 1..Len(StepsOf(r.value)) : IsStep(StepsOf(r.value)[i])

\* C4: any two invocations, whenever they happen, return structurally
\* identical values.
C4_Determinism ==
    \A r1, r2 \in returned : r1.value = r2.value

\* two invocations completed, the later one after a caller had mutated the
\* value it received from the earlier one
C4_Witness ==
    /\ \E r \in returned : r.afterMutation
    /\ \E r \in returned : ~r.afterMutation
    /\ \E c, d \in Callers : c # d /\ ret[c].t = "ref" /\ ret[d].t = "ref"

\* C5: every invocation terminates by returning a value; it never throws
\* and never stays inside the function.
C5_Total ==
    /\ [](\A c \in Callers : pc[c] \in {"idle", "construct", "return"})
    /\ \A c \in Callers :
          (pc[c] = "construct") ~> (pc[c] = "idle" /\ ret[c].t = "ref")

C5_Witness ==
    \E c \in Callers : calls > 0 /\ pc[c] = "idle" /\ ret[c].t = "ref"

\* What caller d can see through the value it holds.
Held(d) == Deref(heap, ret[d])

\* C6: each invocation builds a value sharing no cell with the value of any
\* other invocation: values held by different callers are disjoint, an
\* invocation made after a caller mutated its value still returns the three
\* literal steps, and a step taken by one caller leaves the values held by
\* the other callers as they were.
C6_FreshConstruction ==
    /\ [](\A c, d \in Callers :
            c # d => Cells(heap, ret[c]) \cap Cells(heap, ret[d]) = {})
    /\ [](\A r \in returned :
            r.afterMutation =>
               /\ Len(StepsOf(r.value)) = 3
               /\ ExpectedOrder(StepsOf(r.value)))
    /\ [][\A d \in Callers :
            (ret'[d] = ret[d] /\ muts'[d] = muts[d]) => Held(d)' = Held(d)]_vars

\* a caller mutated its value, and another caller invoked afterwards and
\* holds its own value
C6_Witness ==
    /\ \E r \in returned : r.afterMutation
    /\ \E c, d \in Callers :
          /\ c # d
          /\ muts[c] > 0
          /\ ret[d].t = "ref"
          /\ Len(StepsOf(Held(c))) < 3

\* C7: when invocations of several callers overlap, each invocation has its
\* own complete three-step list in order when it returns, and its cells are
\* shared with no other invocation in progress and with no value another
\* caller holds.
C7_NoInterference ==
    \A c \in Callers :
        pc[c] = "return" =>
           /\ Len(StepsOf(Deref(heap, config[c]))) = 3
           /\ ExpectedOrder(StepsOf(Deref(heap, config[c])))
           /\ \A d \in Callers \ {c} :
                 Cells(heap, config[c])
                    \cap (Cells(heap, config[d]) \cup Cells(heap, ret[d])) = {}

\* two invocations in progress at once, both past the construction
C7_Witness ==
    \E c, d \in Callers : c # d /\ pc[c] = "return" /\ pc[d] = "return"

\* The commands the host is to run, in order, with their directories.
ExpectedLog ==
    << [message |-> "git pull", cwd |-> HostDefaultRoot],
       [message |-> "git pull --tags", cwd |-> "facefusion"],
       [message |-> "git checkout 2.5.3", cwd |-> "facefusion"] >>

\* C8: a host running the returned steps one at a time in list order runs
\* "git pull" in its default root, then "git pull --tags" in facefusion,
\* then "git checkout 2.5.3" in facefusion; the checkout never precedes a
\* pull and no step is run twice.
C8_HostOrder ==
    /\ Len(log) <= 3
    /\ log = SubSeq(ExpectedLog, 1, Len(log))

C8_Witness ==
    /\ Len(log) = 3
    /\ hostIdx = 3
    /\ \E c \in Mutators : muts[c] > 0

\* C9: the returned value does not depend on the arguments passed: an
\* invocation without arguments and one with arguments return structurally
\* identical values.
C9_ArgumentIndependence ==
    \A r1, r2 \in returned :
        (r1.args = <<>> /\ r2.args # <<>>) => r1.value = r2.value

C9_Witness ==
    /\ \E r \in returned : r.args = <<>>
    /\ \E r \in returned : r.args # <<>>

====
